---- MODULE Spec2Model ----
(***************************************************************************)
(* Model of the alpha-video-generator core: the chroma-key shader pair,    *)
(* the ChromaKeyProcessor (GPU context), the VideoProcessor stages         *)
(* extractFrames, processFrames and createVideo, and a pipeline run that   *)
(* sequences the three stages.                                             *)
(*                                                                         *)
(* Shader arithmetic is fixed point: One stands for 1.0, so that a texel   *)
(* byte b is exactly b * 40 and every preset constant is an integer.       *)
(* Hue is kept in hundredths of a degree.                                  *)
(***************************************************************************)
EXTENDS Integers, Sequences, FiniteSets, TLC

\* ------------------------------------------------------------------ bounds
MaxFrames == 6
MaxFailAt == 2
MaxStart == 1
MaxRenderTicks == 1
MaxLate == 3
MaxCvFrames == 4
MaxDuration == 7
MaxExFrames == 4
MaxWidth == 2
MaxHeight == 3
MaxProgressEvents == 2
MaxRuns == 2

\* ------------------------------------------------------- fixed-point basics
One == 255 * 40
HueUnit == 10 * 10

Min2(a, b) == IF a <= b THEN a ELSE b
Max2(a, b) == IF a >= b THEN a ELSE b
Abs(a) == IF a < 0 THEN 0 - a ELSE a

\* a / b rounded to the nearest integer (halves upwards), b > 0
DivRound(a, b) == (2 * a + b) \div (2 * b)

\* a * b for two fixed-point numbers
FMul(a, b) == DivRound(a * b, One)

\* The shader functions are TLA+ functions, so that each is applied to the
\* values of its arguments.
Color == [r : Int, g : Int, b : Int]
Pixel == Int \X Int \X Int \X Int
Vec4 == [x : Int, y : Int, z : Int, w : Int]
Hsv == [h : Int, s : Int, v : Int]
Settings == [hueTarget : Int, hueRange : Int, satMin : Int, valMin : Int, valMax : Int,
             smoothness : Int, spillSuppression : Int]

\* ----------------------------------------------------------- GLSL built-ins
\* step(edge, x) = x < edge ? 0.0 : 1.0
step_swapped(edge, x) == IF edge < x THEN 0 ELSE One
step(edge, x) == IF x < edge THEN 0 ELSE One

clamp01[x \in Int] == IF x < 0 THEN 0 ELSE IF x > One THEN One ELSE x

\* t * t * (3.0 - 2.0 * t)
hermite[t \in Int] == FMul(FMul(t, t), 3 * One - 2 * t)

\* smoothstep(e0, e1, x), e0 < e1; e0, e1, x share one unit, the result is
\* a fixed-point number in [0, One]
smoothstep[e0 \in Int, e1 \in Int, x \in Int] ==
    hermite[clamp01[DivRound((x - e0) * One, e1 - e0)]]

\* ------------------------------------------------------------------ settings
GREEN_SCREEN_SETTINGS ==
    [hueTarget |-> 120 * HueUnit, hueRange |-> 80 * HueUnit,
     satMin |-> (15 * One) \div 100, valMin |-> (10 * One) \div 100,
     valMax |-> (98 * One) \div 100, smoothness |-> (12 * One) \div 100,
     spillSuppression |-> (70 * One) \div 100]

BLUE_SCREEN_SETTINGS ==
    [hueTarget |-> 240 * HueUnit, hueRange |-> 80 * HueUnit,
     satMin |-> (15 * One) \div 100, valMin |-> (10 * One) \div 100,
     valMax |-> (98 * One) \div 100, smoothness |-> (12 * One) \div 100,
     spillSuppression |-> (70 * One) \div 100]

\* -------------------------------------------------------------------- shaders
\* texture2D on an RGBA8 texel: byte / 255
texture2D[px \in Pixel] == [r |-> px[1] * 40, g |-> px[2] * 40, b |-> px[3] * 40]

\* vec4 p = mix(vec4(c.bg, K.wz), vec4(c.gb, K.xy), step(c.b, c.g)); the
\* components of K = (0, -1/3, 2/3, -1) are kept in thirds
hsvP[c \in Color] ==
    IF c.g >= c.b THEN [x |-> c.g, y |-> c.b, z |-> 0, w |-> 0 - 1]
                  ELSE [x |-> c.b, y |-> c.g, z |-> 0 - 3, w |-> 2]

\* vec4 q = mix(vec4(p.xyw, c.r), vec4(c.r, p.yzx), step(p.x, c.r))
hsvQ[r \in Int, p \in Vec4] ==
    IF r >= p.x THEN [x |-> r, y |-> p.y, z |-> p.z, w |-> p.x]
                ELSE [x |-> p.x, y |-> p.y, z |-> p.w, w |-> r]

\* the vec3 returned by rgb2hsv, h in hue units; e = 1.0e-10 only decides the
\* value of 0/0, which is 0
hsvOf[q \in Vec4] ==
    LET d == q.x - Min2(q.w, q.y)
    IN  [h |-> Abs(120 * HueUnit * q.z +
                   (IF d = 0 THEN 0 ELSE DivRound(60 * HueUnit * (q.w - q.y), d))),
         s |-> IF q.x = 0 THEN 0 ELSE DivRound(d * One, q.x),
         v |-> q.x]

rgb2hsv[c \in Color] == hsvOf[hsvQ[c.r, hsvP[c]]]

\* hueDiff: the distance of hue to the target, wrapped at 360
hueDiffOf[hue \in Int, hueTarget \in Int] ==
    IF Abs(hue - hueTarget) > 180 * HueUnit THEN 360 * HueUnit - Abs(hue - hueTarget)
    ELSE Abs(hue - hueTarget)

\* keyStrength of maskFragmentShader main()
maskKeyStrength[color \in Color, hsv \in Hsv, s \in Settings] ==
    LET hueMatch == One - smoothstep[s.hueRange \div 2, s.hueRange, hueDiffOf[hsv.h, s.hueTarget]]
        satMatch == smoothstep[s.satMin \div 2, s.satMin, hsv.s]
        valMatch == FMul(step(s.valMin, hsv.v), step(hsv.v, s.valMax))
        dominance == IF s.hueTarget < 180 * HueUnit
                     THEN smoothstep[0, One \div 10, color.g - Max2(color.r, color.b)]
                     ELSE smoothstep[0, One \div 10, color.b - Max2(color.r, color.g)]
    IN  FMul(FMul(FMul(hueMatch, satMatch), valMatch), dominance)

\* alpha = 1.0 - smoothstep(0.3 - u_smoothness, 0.3 + u_smoothness, keyStrength)
maskAlphaOf[keyStrength \in Int, smoothness \in Int] ==
    One - smoothstep[(3 * One) \div 10 - smoothness, (3 * One) \div 10 + smoothness,
                     keyStrength]

\* maskFragmentShader main(), up to alpha
maskAlpha[color \in Color, s \in Settings] ==
    maskAlphaOf[maskKeyStrength[color, rgb2hsv[color], s], s.smoothness]

\* the copy of rgb2hsv in blackBgFragmentShader
rgb2hsvBlack[c \in Color] == hsvOf[hsvQ[c.r, hsvP[c]]]

\* keyStrength of blackBgFragmentShader main()
blackKeyStrength[color \in Color, hsv \in Hsv, s \in Settings] ==
    LET hueMatch == One - smoothstep[s.hueRange \div 2, s.hueRange, hueDiffOf[hsv.h, s.hueTarget]]
        satMatch == smoothstep[s.satMin \div 2, s.satMin, hsv.s]
        valMatch == FMul(step(s.valMin, hsv.v), step(hsv.v, s.valMax))
        isGreen == s.hueTarget < 180 * HueUnit
        dominance == IF isGreen
                     THEN smoothstep[0, One \div 10, color.g - Max2(color.r, color.b)]
                     ELSE smoothstep[0, One \div 10, color.b - Max2(color.r, color.g)]
    IN  FMul(FMul(FMul(hueMatch, satMatch), valMatch), dominance)

\* blackBgFragmentShader main(), up to alpha
blackAlpha[color \in Color, s \in Settings] ==
    One - smoothstep[(3 * One) \div 10 - s.smoothness, (3 * One) \div 10 + s.smoothness,
                     blackKeyStrength[color, rgb2hsvBlack[color], s]]

\* excess * amount, and the fifth of it that goes to the other two channels
spillShift[excess \in Int, amount \in Int] ==
    [sub |-> FMul(excess, amount), add |-> FMul(FMul(excess, amount), One \div 5)]

suppressSpill[color \in Color, amount \in Int, isGreen \in BOOLEAN] ==
    IF isGreen
    THEN LET sh == spillShift[Max2(0, color.g - (color.r + color.b) \div 2), amount]
         IN  [r |-> Min2(One, color.r + sh.add),
              g |-> color.g - sh.sub,
              b |-> Min2(One, color.b + sh.add)]
    ELSE LET sh == spillShift[Max2(0, color.b - (color.r + color.g) \div 2), amount]
         IN  [r |-> Min2(One, color.r + sh.add),
              g |-> Min2(One, color.g + sh.add),
              b |-> color.b - sh.sub]

\* gl_FragColor written to an RGBA8 target: clamp, scale by 255, round
toByte[x \in Int] == DivRound(clamp01[x] * 255, One)

\* gl_FragColor = vec4(vec3(alpha), 1.0)
maskColor[alpha \in Int] == <<toByte[alpha], toByte[alpha], toByte[alpha], 255>>

maskFragmentShader[px \in Pixel, s \in Settings] == maskColor[maskAlpha[texture2D[px], s]]

\* finalColor = despilled * alpha; gl_FragColor = vec4(finalColor, 1.0)
blackColor[despilled \in Color, alpha \in Int] ==
    <<toByte[FMul(despilled.r, alpha)], toByte[FMul(despilled.g, alpha)],
      toByte[FMul(despilled.b, alpha)], 255>>

\* spillStrength, suppressSpill and the blend with black
despill[color \in Color, alpha \in Int, s \in Settings] ==
    blackColor[suppressSpill[color, FMul(s.spillSuppression, One - alpha \div 2),
                             s.hueTarget < 180 * HueUnit], alpha]

blackBgFragmentShader[px \in Pixel, s \in Settings] ==
    despill[texture2D[px], blackAlpha[texture2D[px], s], s]

\* ------------------------------------------------------ ChromaKeyProcessor
\* ImageData: width, height and row-major RGBA pixels, top row first
ImageData(data, width, height) == [width |-> width, height |-> height, data |-> data]

\* gl.useProgram(program) and the draw: the fragment shader linked into it
runFragment(program, px, settings) ==
    IF program = "maskProgram" THEN maskFragmentShader[px, settings]
    ELSE blackBgFragmentShader[px, settings]

\* gl.readPixels after drawArrays: row r of the readback is the bottom-up
\* row r of the render target; the quad maps texture coordinate t = 1 (the
\* last uploaded row) to the bottom edge.  A program that was deleted draws
\* nothing, which leaves the clear colour (0, 0, 0, 1).
readPixels(ctx, program, imageData, settings) ==
    [k \in 1..(ctx.width * ctx.height) |->
        LET r == (k - 1) \div ctx.width
            x == (k - 1) % ctx.width
        IN  IF ctx.destroyed > 0 THEN <<0, 0, 0, 255>>
            ELSE runFragment(program, imageData.data[(imageData.height - 1 - r) * imageData.width + x + 1], settings)]

\* the "Flip Y" loop of renderWithProgram
flipY_none(output, width, height) == output
flipY(output, width, height) ==
    [k \in 1..(width * height) |->
        LET y == (k - 1) \div width
            x == (k - 1) % width
        IN  output[(height - 1 - y) * width + x + 1]]

renderWithProgram(ctx, program, imageData, settings) ==
    ImageData(flipY(readPixels(ctx, program, imageData, settings), ctx.width, ctx.height),
              ctx.width, ctx.height)

processFrameAll(ctx, imageData, settings) ==
    [mask |-> renderWithProgram(ctx, "maskProgram", imageData, settings),
     black |-> renderWithProgram(ctx, "blackBgProgram", imageData, settings)]

\* ------------------------------------------------------------------- inputs
PureGreen == <<0, 255, 0, 255>>
PureBlue == <<0, 0, 255, 255>>
Black == <<0, 0, 0, 255>>
White == <<255, 255, 255, 255>>

GreenFrame == ImageData(<<PureGreen, PureGreen>>, 1, 2)

\* frames that differ from each other and between their two rows
CycleFrames ==
    << ImageData(<< <<255, 0, 0, 255>>, <<0, 200, 0, 255>> >>, 1, 2),
       ImageData(<< <<0, 0, 200, 255>>, White >>, 1, 2),
       ImageData(<< <<40, 220, 60, 255>>, <<128, 128, 128, 255>> >>, 1, 2) >>

Patterns == {"green", "cycle"}

FrameSeq(pattern, n) ==
    [k \in 1..n |-> IF pattern = "green" THEN GreenFrame
                    ELSE CycleFrames[((k - 1) % Len(CycleFrames)) + 1]]

\* what the environment makes fail during one processFrames call: nothing,
\* the ChromaKeyProcessor constructor, the classification of frame `at`
\* (1-based) or the progress callback invoked for frame `at`
NoFailure == [kind |-> "none", at |-> 0]

Failures(n) ==
    {NoFailure, [kind |-> "ctor", at |-> 0]}
      \cup [kind : {"classify", "callback"}, at : 1..Min2(n, MaxFailAt)]

Calls == {1, 2}

\* the frame counts tried: the short runs and one that passes the second yield
Lengths == (0..2) \cup {MaxFrames}

\* -------------------------------------------------------------------- state
VARIABLES
    processor,   \* VideoProcessor.processor: 0 is null, else an index of contexts
    contexts,    \* every ChromaKeyProcessor constructed so far
    calls,       \* the processFrames activations, by call id
    running,     \* the call whose code is on the stack, 0 when the host is idle
    now,         \* performance.now(), in ticks of half a frame interval
    cv,          \* the createVideo activation
    ex,          \* the extractFrames activation and its video source
    vp,          \* the pipeline run that sequences the three stages
    sh,          \* one fragment of each shader pass: its inputs and outputs
    home,        \* the Home page: its React state, its refs and its error timer
    ff           \* the FFmpegProcessor.processVideo activation

pfVars == <<processor, contexts, calls, running>>
vars == <<processor, contexts, calls, running, now, cv, ex, vp, sh, home, ff>>

IdleCall ==
    [pc |-> "idle", frames |-> <<>>, colorType |-> "green", fail |-> NoFailure,
     i |-> 0, maskFrames |-> <<>>, blackFrames |-> <<>>, own |-> 0, used |-> <<>>,
     progress |-> <<>>, yields |-> 0, burst |-> 0, err |-> "none"]

pfInit ==
    /\ processor = 0
    /\ contexts = <<>>
    /\ calls = [c \in Calls |-> IdleCall]
    /\ running = 0

settingsOf(colorType) ==
    IF colorType = "green" THEN GREEN_SCREEN_SETTINGS ELSE BLUE_SCREEN_SETTINGS

\* an exception leaves the async function: its promise is rejected
throw_partial(call, e) == [call EXCEPT !.pc = "returned", !.err = e]
throw(call, e) == [call EXCEPT !.pc = "thrown", !.err = e]

\* return { mask: [], black: [] } of the empty check
emptyResult_progress(call) == [call EXCEPT !.pc = "returned", !.progress = << <<0, 0>> >>]
emptyResult(call) == [call EXCEPT !.pc = "returned"]

\* frames[i] of the loop
frameAt_reversed(frames, i) == frames[Len(frames) - i]
frameAt(frames, i) == frames[i + 1]

\* processFrames up to the loop: the empty check and the construction of the
\* ChromaKeyProcessor (part_000 lines 87-99)
processFramesEntry(c, frames, colorType, fail) ==
    /\ running = 0
    /\ calls[c].pc = "idle"
    /\ \A b \in Calls : b < c => calls[b].pc # "idle"   \* call ids are given out in order
    /\ LET call == [calls[c] EXCEPT !.frames = frames, !.colorType = colorType, !.fail = fail]
       IN  IF Len(frames) = 0
           THEN /\ calls' = [calls EXCEPT ![c] = emptyResult(call)]
                /\ UNCHANGED <<processor, contexts, running>>
           ELSE IF fail.kind = "ctor"
           THEN /\ calls' = [calls EXCEPT ![c] = throw(call, "ctor")]
                /\ UNCHANGED <<processor, contexts, running>>
           ELSE /\ contexts' = Append(contexts,
                        [width |-> frames[1].width, height |-> frames[1].height,
                         owner |-> c, destroyed |-> 0, classified |-> 0, usedDead |-> 0])
                /\ processor' = Len(contexts) + 1
                /\ calls' = [calls EXCEPT ![c] = [call EXCEPT !.pc = "loop", !.own = Len(contexts) + 1]]
                /\ running' = c

processFrames(c) ==
    \E n \in Lengths, pattern \in Patterns, colorType \in {"green", "blue"} :
      \E fail \in Failures(n) :
        /\ processFramesEntry(c, FrameSeq(pattern, n), colorType, fail)
        /\ UNCHANGED <<now, cv, ex, vp, sh, home, ff>>

\* if (i % 5 === 0): the iterations after which the loop yields to the host
yieldDue_phase(i) == (i + 1) % 6 = 0
yieldDue(i) == i % 5 = 0

\* one iteration of the for loop (part_000 lines 101-114)
loopBody(c) ==
    LET call == calls[c]
        n == Len(call.frames)
        i == call.i
    IN  /\ running = c
        /\ call.pc = "loop"
        /\ i < n
        /\ UNCHANGED <<now, cv, ex, vp, sh, home, ff>>
        /\ IF processor = 0
           THEN \* this.processor is null: TypeError
                /\ calls' = [calls EXCEPT ![c] = throw(call, "nullClassify")]
                /\ running' = 0
                /\ UNCHANGED <<processor, contexts>>
           ELSE IF call.fail.kind = "classify" /\ call.fail.at = i + 1
           THEN /\ calls' = [calls EXCEPT ![c] = throw(call, "classify")]
                /\ running' = 0
                /\ UNCHANGED <<processor, contexts>>
           ELSE LET result == processFrameAll(contexts[processor], frameAt(call.frames, i),
                                              settingsOf(call.colorType))
                    pushed == [call EXCEPT !.maskFrames = Append(@, result.mask),
                                           !.blackFrames = Append(@, result.black),
                                           !.used = Append(@, processor),
                                           !.burst = @ + 1,
                                           !.progress = Append(@, <<i + 1, n>>)]
                IN  /\ contexts' = [contexts EXCEPT
                           ![processor].classified = @ + 1,
                           ![processor].usedDead =
                               IF contexts[processor].destroyed > 0 THEN @ + 1 ELSE @]
                    /\ UNCHANGED processor
                    /\ IF call.fail.kind = "callback" /\ call.fail.at = i + 1
                       THEN /\ calls' = [calls EXCEPT ![c] = throw(pushed, "callback")]
                            /\ running' = 0
                       ELSE IF yieldDue(i)
                       THEN /\ calls' = [calls EXCEPT ![c] =
                                   [pushed EXCEPT !.pc = "yielded", !.yields = @ + 1, !.burst = 0]]
                            /\ running' = 0
                       ELSE /\ calls' = [calls EXCEPT ![c] = [pushed EXCEPT !.i = i + 1]]
                            /\ UNCHANGED running

\* the setTimeout(resolve, 0) of the yield fires: the loop continues with i++
resume(c) ==
    /\ running = 0
    /\ calls[c].pc = "yielded"
    /\ calls' = [calls EXCEPT ![c] = [@ EXCEPT !.pc = "loop", !.i = @ + 1]]
    /\ running' = c
    /\ UNCHANGED <<processor, contexts, now, cv, ex, vp, sh, home, ff>>

\* after the loop: this.processor.destroy(); this.processor = null; return
loopExit(c) ==
    LET call == calls[c]
    IN  /\ running = c
        /\ call.pc = "loop"
        /\ call.i = Len(call.frames)
        /\ running' = 0
        /\ UNCHANGED <<now, cv, ex, vp, sh, home, ff>>
        /\ IF processor = 0
           THEN /\ calls' = [calls EXCEPT ![c] = throw(call, "nullDestroy")]
                /\ UNCHANGED <<processor, contexts>>
           ELSE /\ contexts' = [contexts EXCEPT ![processor].destroyed = @ + 1]
                /\ processor' = 0
                /\ calls' = [calls EXCEPT ![c] = [call EXCEPT !.pc = "returned"]]

pfNext == \E c \in Calls : processFrames(c) \/ loopBody(c) \/ resume(c) \/ loopExit(c)

\* frames of every size from 1 x 1 up, whose texels differ along each row and
\* from row to row, and differ from one frame to the next
Palette == << <<255, 0, 0, 255>>, <<0, 200, 0, 255>>, <<0, 0, 200, 255>>, White,
              <<128, 128, 128, 255>> >>

SizedFrame(width, height, o) ==
    ImageData([j \in 1..(width * height) |-> Palette[((j - 1 + o) % Len(Palette)) + 1]],
              width, height)

\* processFrames called once with one or two frames of one size
processSized ==
    /\ \E width \in 1..MaxWidth, height \in 1..MaxHeight, o \in 0..(Len(Palette) - 1),
          n \in 1..2, colorType \in {"green", "blue"} :
         processFramesEntry(1, [k \in 1..n |-> SizedFrame(width, height, o + k - 1)],
                            colorType, NoFailure)
    /\ UNCHANGED <<now, cv, ex, vp, sh, home, ff>>

\* ------------------------------------------------------------- createVideo
\* Time is counted in ticks of half a frame interval at the default rate.
fps == 30
frameInterval == 2
\* the 100 ms of the setTimeout before mediaRecorder.stop(), in ticks
settleDelay_none == (0 * fps * frameInterval) \div 1000
settleDelay == (100 * fps * frameInterval) \div 1000

NoTimer == [kind |-> "none", due |-> 0]
NoAsset == [present |-> FALSE, frames |-> <<>>]
\* how many ticks the host may still lose in this run: in rendering (between
\* the two reads of performance.now()) and in firing timers late
NoSlack == [render |-> 0, late |-> 0]

IdleCV ==
    [pc |-> "idle", frames |-> <<>>, env |-> [hasRequestFrame |-> TRUE, setup |-> "ok", fail |-> NoFailure,
                                                   jitter |-> FALSE, sinkFails |-> FALSE],
     created |-> {}, recorder |-> "none", promise |-> "none", error |-> "none",
     startTime |-> 0, nextFrameTime |-> 0, frameIndex |-> 0, timer |-> NoTimer,
     stopEvent |-> FALSE, events |-> <<>>, emits |-> <<>>, chunks |-> <<>>,
     asset |-> NoAsset, uncaught |-> 0, stoppedAt |-> 0, slack |-> NoSlack]

\* what the environment decides for one createVideo call: whether the track
\* has requestFrame, whether the 2d context or the recorder can be created,
\* whether putImageData or the progress callback raises for some frame,
\* whether rendering and timers take time (jitter) and whether the recorder
\* may report an error
CvFailures(n) ==
    {NoFailure} \cup [kind : {"render", "callback"}, at : 1..Min2(n, MaxFailAt)]

\* the runs tried: slow rendering and late timers with a healthy sink, or
\* punctual timers with every kind of failure
CvEnvs(n) ==
    [hasRequestFrame : {TRUE}, setup : {"ok"}, fail : {NoFailure},
     jitter : {TRUE}, sinkFails : {FALSE}]
      \cup [hasRequestFrame : BOOLEAN, setup : {"ok"}, fail : CvFailures(n),
            jitter : {FALSE}, sinkFails : BOOLEAN]
      \cup [hasRequestFrame : {TRUE}, setup : {"noctx", "norecorder"}, fail : {NoFailure},
            jitter : {FALSE}, sinkFails : {FALSE}]

slackOf(env) == IF env.jitter THEN [render |-> MaxRenderTicks, late |-> MaxLate] ELSE NoSlack

\* throw new Error('No frames to process') in an async function
throwEmpty_emptyBlob(v) == [v EXCEPT !.promise = "resolved", !.asset = [present |-> TRUE, frames |-> <<>>]]
throwEmpty(v) == [v EXCEPT !.promise = "rejected", !.error = "No frames to process"]

\* nextFrameTime += frameInterval
advanceSchedule_drift(nextFrameTime) == nextFrameTime + frameInterval + 1
advanceSchedule(nextFrameTime) == nextFrameTime + frameInterval

\* Math.max(0, nextFrameTime - performance.now())
nextDelay_unclamped(nextFrameTime, t) == nextFrameTime - t
nextDelay(nextFrameTime, t) == Max2(0, nextFrameTime - t)

\* the capture of the current surface: if ('requestFrame' in videoTrack) ...
requestFrame(v, k) ==
    IF v.env.hasRequestFrame
    THEN [v EXCEPT !.events = Append(@, <<"requestFrame", k>>),
                   !.chunks = IF v.recorder = "recording" THEN Append(@, v.frames[k + 1]) ELSE @]
    ELSE v

\* drawNextFrame entered at time t; dt ticks pass between the two reads of
\* performance.now().  The result carries threw = TRUE when the body raised.
drawNextFrame(v, t, dt) ==
    LET n == Len(v.frames)
        k == v.frameIndex
    IN  IF k >= n
        THEN [v |-> [v EXCEPT !.timer = [kind |-> "stop", due |-> t + settleDelay]],
              threw |-> FALSE, end |-> t]
        ELSE IF v.env.fail.kind = "render" /\ v.env.fail.at = k + 1
        THEN [v |-> [v EXCEPT !.timer = NoTimer], threw |-> TRUE, end |-> t]
        ELSE LET drawn == [v EXCEPT !.events = Append(@, <<"putImageData", k>>)]
                 asked == requestFrame(drawn, k)
                 told == [asked EXCEPT !.events = Append(@, <<"onProgress", k + 1, n>>)]
                 next == advanceSchedule(v.nextFrameTime)
                 delay == nextDelay(next, t + dt)
             IN  IF v.env.fail.kind = "callback" /\ v.env.fail.at = k + 1
                 THEN [v |-> [told EXCEPT !.timer = NoTimer], threw |-> TRUE, end |-> t]
                 ELSE [v |-> [told EXCEPT !.frameIndex = k + 1,
                                          !.slack.render = @ - dt,
                                          !.nextFrameTime = next,
                                          !.timer = [kind |-> "draw", due |-> t + dt + delay],
                                          !.emits = Append(@, [at |-> t, delay |-> delay])],
                       threw |-> FALSE, end |-> t + dt]

\* createVideo up to and including the first, synchronous drawNextFrame(),
\* for the activation v entered at time t
createVideoOn(v, frames, env, dt, t) ==
    LET v0 == [v EXCEPT !.pc = "called", !.frames = frames, !.env = env,
                        !.slack = slackOf(env)]
    IN  IF Len(frames) = 0
        THEN [v |-> throwEmpty(v0), end |-> t]
        ELSE IF env.setup = "noctx"
        THEN [v |-> [v0 EXCEPT !.created = {"canvas"}, !.promise = "rejected",
                               !.error = "Failed to get canvas context"],
              end |-> t]
        ELSE IF env.setup = "norecorder"
        THEN [v |-> [v0 EXCEPT !.created = {"canvas", "stream"}, !.promise = "rejected",
                               !.error = "NotSupportedError"],
              end |-> t]
        ELSE LET v1 == [v0 EXCEPT !.created = {"canvas", "stream", "recorder"},
                                  !.promise = "pending", !.recorder = "recording",
                                  !.startTime = t, !.nextFrameTime = t]
                 d == drawNextFrame(v1, t, dt)
             IN  [v |-> IF d.threw
                        THEN [d.v EXCEPT !.promise = "rejected", !.error = "executor"]
                        ELSE d.v,
                  end |-> d.end]

createVideoCall(frames, env, dt) ==
    /\ cv.pc = "idle"
    /\ cv' = createVideoOn(cv, frames, env, dt, now).v
    /\ now' = createVideoOn(cv, frames, env, dt, now).end

createVideo ==
    \E n \in 0..MaxCvFrames :
      \E env \in CvEnvs(n) :
        \E dt \in 0..slackOf(env).render :
          /\ createVideoCall([k \in 1..n |-> k - 1], env, dt)
          /\ UNCHANGED <<pfVars, ex, vp, sh, home, ff>>

\* a setTimeout(drawNextFrame, delay) fires, on time or late
drawTimer ==
    /\ cv.timer.kind = "draw"
    /\ now >= cv.timer.due
    /\ \E dt \in 0..cv.slack.render :
         LET d == drawNextFrame(cv, now, dt)
         IN  /\ cv' = IF d.threw THEN [d.v EXCEPT !.uncaught = @ + 1] ELSE d.v
             /\ now' = d.end
    /\ UNCHANGED <<pfVars, ex, vp, sh, home, ff>>

\* the settle timer fires: mediaRecorder.stop()
stopTimer ==
    /\ cv.timer.kind = "stop"
    /\ now >= cv.timer.due
    /\ cv' = IF cv.recorder = "recording"
             THEN [cv EXCEPT !.timer = NoTimer, !.recorder = "inactive", !.stopEvent = TRUE,
                             !.events = Append(@, <<"stop", 0>>), !.stoppedAt = now]
             ELSE [cv EXCEPT !.timer = NoTimer, !.uncaught = @ + 1]   \* InvalidStateError
    /\ UNCHANGED <<now, pfVars, ex, vp, sh, home, ff>>

\* mediaRecorder.onstop
onstop ==
    /\ cv.stopEvent
    /\ cv' = IF cv.promise = "pending"
             THEN [cv EXCEPT !.stopEvent = FALSE, !.promise = "resolved",
                             !.asset = [present |-> TRUE, frames |-> cv.chunks]]
             ELSE [cv EXCEPT !.stopEvent = FALSE]
    /\ UNCHANGED <<now, pfVars, ex, vp, sh, home, ff>>

\* the recorder fails: it becomes inactive, fires error and then stop
onerror_swallow ==
    /\ cv.env.sinkFails
    /\ cv.recorder = "recording"
    /\ cv' = [cv EXCEPT !.recorder = "inactive", !.stopEvent = TRUE,
                        !.events = Append(@, <<"error", 0>>)]
    /\ UNCHANGED <<now, pfVars, ex, vp, sh, home, ff>>

onerror ==
    /\ cv.env.sinkFails
    /\ cv.recorder = "recording"
    /\ cv' = [cv EXCEPT !.recorder = "inactive", !.stopEvent = TRUE,
                        !.events = Append(@, <<"error", 0>>),
                        !.promise = IF @ = "pending" THEN "rejected" ELSE @,
                        !.error = IF cv.promise = "pending" THEN "MediaRecorder error" ELSE @]
    /\ UNCHANGED <<now, pfVars, ex, vp, sh, home, ff>>

\* time passes while a timer is pending: up to its due time, and beyond it
\* as long as the run has lateness left
tick ==
    /\ cv.timer.kind # "none"
    /\ now' = now + 1
    /\ IF now < cv.timer.due THEN UNCHANGED cv
       ELSE cv.slack.late > 0 /\ cv' = [cv EXCEPT !.slack.late = @ - 1]
    /\ UNCHANGED <<pfVars, ex, vp, sh, home, ff>>

cvNext == createVideo \/ drawTimer \/ stopTimer \/ onstop \/ onerror \/ tick

\* ------------------------------------------------------------ extractFrames
\* videoElement.duration: NaN while unknown, Infinity for an unbounded
\* source, else a length, here in ticks of half a frame interval
Durations ==
    {[kind |-> "NaN", ticks |-> 0], [kind |-> "Infinity", ticks |-> 0]}
      \cup [kind : {"finite"}, ticks : 0..MaxDuration]

\* Math.floor(duration * this.fps)
totalFramesOf_ceil(duration) ==
    [kind |-> duration.kind, n |-> (duration.ticks + frameInterval - 1) \div frameInterval]
totalFramesOf(duration) ==
    [kind |-> duration.kind, n |-> duration.ticks \div frameInterval]

\* i < totalFrames: false against NaN, true against Infinity
loopTest(i, totalFrames) ==
    \/ totalFrames.kind = "Infinity"
    \/ totalFrames.kind = "finite" /\ i < totalFrames.n

\* const time = i * frameInterval, with frameInterval = 1 / this.fps
seekTime(i) == i * frameInterval

NoSource == [seeking |-> FALSE, target |-> 0, shown |-> 0 - 1, failed |-> FALSE]

IdleEX ==
    [pc |-> "idle", env |-> [ctx |-> TRUE, duration |-> [kind |-> "NaN", ticks |-> 0],
                             fail |-> NoFailure],
     totalFrames |-> [kind |-> "NaN", n |-> 0], i |-> 0, frames |-> <<>>,
     progress |-> <<>>, events |-> <<>>, listeners |-> 0, source |-> NoSource,
     err |-> "none"]

\* what the environment decides for one extractFrames call: whether a 2d
\* context can be had, the duration of the source, and whether the seek for
\* frame `at` (0-based) ends in an error event or in no event at all, or the
\* progress callback raises for that frame
ExFailures(totalFrames) ==
    {NoFailure}
      \cup [kind : {"error", "stall", "callback"},
            at : {k \in 0..MaxFailAt : loopTest(k, totalFrames)}]

ExEnvs ==
    {[ctx |-> TRUE, duration |-> d, fail |-> f] :
        d \in Durations, f \in UNION {ExFailures(totalFramesOf(dd)) : dd \in Durations}}
      \cup {[ctx |-> FALSE, duration |-> d, fail |-> NoFailure] : d \in Durations}

\* seekToTime: register the seeked handler, then set video.currentTime
seekToTime(x, time) ==
    [x EXCEPT !.pc = "seeking", !.listeners = @ + 1,
              !.source = [@ EXCEPT !.seeking = TRUE, !.target = time],
              !.events = Append(@, <<"seek", x.i>>)]

\* the head of the for loop: the test, then the seek or the return
loopHead(x) ==
    IF loopTest(x.i, x.totalFrames) THEN seekToTime(x, seekTime(x.i))
    ELSE [x EXCEPT !.pc = "returned"]

\* the loop body after the await: drawImage, getImageData, push, onProgress
captureFrame_zeroBased(x) ==
    LET pushed == [x EXCEPT !.frames = Append(@, x.source.shown),
                            !.events = Append(@, <<"capture", x.i>>)]
    IN  IF x.env.fail.kind = "callback" /\ x.env.fail.at = x.i
        THEN [pushed EXCEPT !.pc = "thrown", !.err = "callback"]
        ELSE loopHead([pushed EXCEPT !.progress = Append(@, <<x.i, x.totalFrames>>),
                                     !.events = Append(@, <<"progress", x.i>>),
                                     !.i = @ + 1])

captureFrame(x) ==
    LET pushed == [x EXCEPT !.frames = Append(@, x.source.shown),
                            !.events = Append(@, <<"capture", x.i>>)]
    IN  IF x.env.fail.kind = "callback" /\ x.env.fail.at = x.i
        THEN [pushed EXCEPT !.pc = "thrown", !.err = "callback"]
        ELSE loopHead([pushed EXCEPT !.progress = Append(@, <<x.i + 1, x.totalFrames>>),
                                     !.events = Append(@, <<"progress", x.i>>),
                                     !.i = @ + 1])

\* extractFrames up to the first await, for the activation x
extractFramesCall(x, env) ==
    IF ~env.ctx
    THEN [x EXCEPT !.pc = "thrown", !.env = env, !.err = "Failed to get canvas context"]
    ELSE loopHead([x EXCEPT !.env = env, !.totalFrames = totalFramesOf(env.duration)])

extractFrames ==
    /\ ex.pc = "idle"
    /\ \E env \in ExEnvs :
         /\ env.fail \in ExFailures(totalFramesOf(env.duration))
         /\ ex' = extractFramesCall(ex, env)
    /\ UNCHANGED <<pfVars, now, cv, vp, sh, home, ff>>

\* the source completes the seek and fires seeked: handleSeeked removes
\* itself and resolves, and the loop runs on to its next await
seeked ==
    /\ ex.pc = "seeking"
    /\ ex.source.seeking
    /\ ~ (ex.env.fail.kind \in {"error", "stall"} /\ ex.env.fail.at = ex.i)
    /\ Len(ex.frames) < MaxExFrames
    /\ ex' = captureFrame([ex EXCEPT !.listeners = @ - 1,
                                     !.events = Append(@, <<"seeked", ex.i>>),
                                     !.source = [@ EXCEPT !.seeking = FALSE, !.shown = ex.source.target]])
    /\ UNCHANGED <<pfVars, now, cv, vp, sh, home, ff>>

\* the source gives the seek up and fires error: nothing listens for it
sourceError ==
    /\ ex.pc = "seeking"
    /\ ex.source.seeking
    /\ ex.env.fail.kind = "error" /\ ex.env.fail.at = ex.i
    /\ ex' = [ex EXCEPT !.source = [@ EXCEPT !.seeking = FALSE, !.failed = TRUE],
                        !.events = Append(@, <<"error", ex.i>>)]
    /\ UNCHANGED <<pfVars, now, cv, vp, sh, home, ff>>

exNext == extractFrames \/ seeked \/ sourceError

\* ------------------------------------------------- one fragment, any settings
\* the channel values and the Key Settings tried: the presets and settings
\* at and between the ends of the valid ranges
SampleBytes == {0, 100, 200, 255}
\* texels a quarter turn of hue away from a preset's target (210 and 330
\* degrees), and texels of the target hue, half value and a saturation just
\* above u_satMin = 0.15
ProbePixels ==
    {<<100, 150, 200, 255>>, <<0, 1, 2, 255>>, <<200, 100, 150, 255>>, <<2, 0, 1, 255>>,
     <<108, 128, 108, 255>>, <<108, 108, 128, 255>>, <<107, 127, 107, 255>>, <<107, 107, 127, 255>>}
SamplePixels ==
    {<<r, g, b, 255>> : r \in SampleBytes, g \in SampleBytes, b \in SampleBytes} \cup ProbePixels

KeySettings(t, h, sm, v, sn) ==
    [hueTarget |-> t * HueUnit, hueRange |-> h * HueUnit,
     satMin |-> (sm * One) \div 100, valMin |-> (v[1] * One) \div 100,
     valMax |-> (v[2] * One) \div 100, smoothness |-> (sn * One) \div 100,
     spillSuppression |-> (70 * One) \div 100]

SampleSettings ==
    {KeySettings(t, h, 15, v, sn) :
        t \in {120, 240}, h \in {80, 180}, v \in {<<10, 98>>, <<0, 100>>},
        sn \in {12, 30, 50, 100}}
      \cup {KeySettings(t, 180, sm, <<0, 100>>, sn) :
               t \in {120, 240}, sm \in {0, 15}, sn \in {0, 12, 100}}

\* smoothstep(e0, e1, x) is undefined for e0 >= e1: with u_satMin = 0 the
\* saturation test, and so keyStrength, may come out as anything, and with
\* u_smoothness = 0 alpha may.  The value is the environment's choice; the
\* two programs are the same expressions on the same operands, compiled for
\* the same device, so one choice holds for both passes of a frame.
UndefinedValues == {0, One \div 2, One}

UndefinedChoices(s) ==
    [key : IF s.satMin = 0 THEN UndefinedValues ELSE {0},
     alpha : IF s.smoothness = 0 THEN UndefinedValues ELSE {0}]

NoPass == [done |-> FALSE, keyStrength |-> 0, alpha |-> 0, color |-> <<0, 0, 0, 0>>]

\* maskFragmentShader main() for one fragment
maskPass_alphaChannel(px, s, u) ==
    LET key == IF s.satMin = 0 THEN u.key
               ELSE maskKeyStrength[texture2D[px], rgb2hsv[texture2D[px]], s]
        alpha == IF s.smoothness = 0 THEN u.alpha ELSE maskAlphaOf[key, s.smoothness]
    IN  [done |-> TRUE, keyStrength |-> key, alpha |-> alpha,
         color |-> <<toByte[alpha], toByte[alpha], toByte[alpha], toByte[alpha]>>]

maskPass(px, s, u) ==
    IF s.satMin > 0 /\ s.smoothness > 0
    THEN [done |-> TRUE,
          keyStrength |-> maskKeyStrength[texture2D[px], rgb2hsv[texture2D[px]], s],
          alpha |-> maskAlpha[texture2D[px], s],
          color |-> maskFragmentShader[px, s]]
    ELSE LET key == IF s.satMin = 0 THEN u.key
                    ELSE maskKeyStrength[texture2D[px], rgb2hsv[texture2D[px]], s]
             alpha == IF s.smoothness = 0 THEN u.alpha ELSE maskAlphaOf[key, s.smoothness]
         IN  [done |-> TRUE, keyStrength |-> key, alpha |-> alpha, color |-> maskColor[alpha]]

\* blackBgFragmentShader main() for one fragment
blackPass_spillMin(px, s, u) ==
    IF s.satMin > 0 /\ s.smoothness > 0
    THEN LET c == texture2D[px]
             alpha == blackAlpha[c, s]
             amount == FMul(s.spillSuppression, One - alpha \div 2)
             despilled == IF s.hueTarget < 180 * HueUnit
                          THEN [c EXCEPT !.g = @ - FMul(Max2(0, c.g - Min2(c.r, c.b)), amount)]
                          ELSE [c EXCEPT !.b = @ - FMul(Max2(0, c.b - Min2(c.r, c.g)), amount)]
         IN  [done |-> TRUE, keyStrength |-> blackKeyStrength[c, rgb2hsvBlack[c], s],
              alpha |-> alpha, color |-> blackColor[despilled, alpha]]
    ELSE [done |-> TRUE, keyStrength |-> u.key, alpha |-> u.alpha,
          color |-> despill[texture2D[px], u.alpha, s]]

blackPass_hardEdge(px, s, u) ==
    IF s.satMin > 0 /\ s.smoothness > 0
    THEN LET c == texture2D[px]
             key == blackKeyStrength[c, rgb2hsvBlack[c], s]
             alpha == maskAlphaOf[key, (s.smoothness + 1) \div 2]
         IN  [done |-> TRUE, keyStrength |-> key, alpha |-> alpha, color |-> despill[c, alpha, s]]
    ELSE [done |-> TRUE, keyStrength |-> u.key, alpha |-> u.alpha,
          color |-> despill[texture2D[px], u.alpha, s]]

blackPass(px, s, u) ==
    IF s.satMin > 0 /\ s.smoothness > 0
    THEN [done |-> TRUE,
          keyStrength |-> blackKeyStrength[texture2D[px], rgb2hsvBlack[texture2D[px]], s],
          alpha |-> blackAlpha[texture2D[px], s],
          color |-> blackBgFragmentShader[px, s]]
    ELSE LET key == IF s.satMin = 0 THEN u.key
                    ELSE blackKeyStrength[texture2D[px], rgb2hsvBlack[texture2D[px]], s]
             alpha == IF s.smoothness = 0 THEN u.alpha
                      ELSE One - smoothstep[(3 * One) \div 10 - s.smoothness,
                                            (3 * One) \div 10 + s.smoothness, key]
         IN  [done |-> TRUE, keyStrength |-> key, alpha |-> alpha,
              color |-> despill[texture2D[px], alpha, s]]

IdleSH ==
    [px |-> Black, settings |-> GREEN_SCREEN_SETTINGS, u |-> [key |-> 0, alpha |-> 0],
     mask |-> NoPass, black |-> NoPass]

\* processFrameAll, seen at one fragment: the mask program runs first
renderMask ==
    /\ ~sh.mask.done
    /\ \E u \in UndefinedChoices(sh.settings) :
         sh' = [sh EXCEPT !.mask = maskPass(sh.px, sh.settings, u), !.u = u]
    /\ UNCHANGED <<pfVars, now, cv, ex, vp, home, ff>>

renderBlack ==
    /\ sh.mask.done /\ ~sh.black.done
    /\ sh' = [sh EXCEPT !.black = blackPass(sh.px, sh.settings, sh.u)]
    /\ UNCHANGED <<pfVars, now, cv, ex, vp, home, ff>>

shNext == renderMask \/ renderBlack

\* --------------------------------------------------------- the pipeline run
\* One run of extract -> classify -> reassemble (mask) -> reassemble
\* (composite) over the three stage methods of VideoProcessor: each stage is
\* started when the promise of the one before it is fulfilled, and the run
\* fails when the promise of its current stage is rejected.
Stages == <<"extracting", "classifying", "reassembling-mask", "reassembling-composite", "done">>

IdleVP ==
    [stage |-> "idle", colorMode |-> "green", log |-> <<>>,
     assets |-> [mask |-> NoAsset, black |-> NoAsset], returned |-> FALSE,
     error |-> "none"]

enter(run, stage) == [run EXCEPT !.stage = stage, !.log = Append(@, stage)]

\* the image the source shows at time t
imageAt(t) == CycleFrames[((t \div frameInterval) % Len(CycleFrames)) + 1]

\* the sources and sinks tried in a run: an empty source, one of two frames
\* and one of the longest duration, a recorder with punctual timers
VpExEnvs ==
    {env \in ExEnvs :
        /\ env.ctx
        /\ env.duration \in {[kind |-> "finite", ticks |-> 0],
                             [kind |-> "finite", ticks |-> 2 * frameInterval + 1],
                             [kind |-> "finite", ticks |-> MaxDuration]}
        /\ env.fail \in ExFailures(totalFramesOf(env.duration))}

VpCvEnvs(n) == {env \in CvEnvs(n) : ~env.jitter /\ env.hasRequestFrame}

\* the run is started: extractFrames is called
vpStart ==
    /\ vp.stage = "idle"
    /\ ex.pc = "idle"
    /\ \E mode \in {"green", "blue"}, env \in VpExEnvs :
         /\ vp' = enter([vp EXCEPT !.colorMode = mode], "extracting")
         /\ ex' = extractFramesCall(ex, env)
    /\ UNCHANGED <<pfVars, now, cv, sh, home, ff>>

\* extractFrames is fulfilled: processFrames is called with its frames
vpExtracted ==
    /\ vp.stage = "extracting"
    /\ ex.pc = "returned"
    /\ \E fail \in Failures(Len(ex.frames)) :
         processFramesEntry(1, [k \in 1..Len(ex.frames) |-> imageAt(ex.frames[k])],
                            vp.colorMode, fail)
    /\ vp' = enter(vp, "classifying")
    /\ UNCHANGED <<now, cv, ex, sh, home, ff>>

\* processFrames is fulfilled: createVideo is called with the mask frames
vpClassified ==
    /\ vp.stage = "classifying"
    /\ calls[1].pc = "returned"
    /\ \E env \in VpCvEnvs(Len(calls[1].maskFrames)) :
         createVideoCall(calls[1].maskFrames, env, 0)
    /\ vp' = enter(vp, "reassembling-mask")
    /\ UNCHANGED <<pfVars, ex, sh, home, ff>>

\* the mask asset is there: createVideo is called with the composite frames
vpMaskDone ==
    /\ vp.stage = "reassembling-mask"
    /\ cv.promise = "resolved"
    /\ \E env \in VpCvEnvs(Len(calls[1].blackFrames)) :
         /\ cv' = createVideoOn(IdleCV, calls[1].blackFrames, env, 0, now).v
         /\ now' = createVideoOn(IdleCV, calls[1].blackFrames, env, 0, now).end
    /\ vp' = enter([vp EXCEPT !.assets.mask = cv.asset], "reassembling-composite")
    /\ UNCHANGED <<pfVars, ex, sh, home, ff>>

\* the composite asset is there: both assets are returned
vpDone ==
    /\ vp.stage = "reassembling-composite"
    /\ cv.promise = "resolved"
    /\ vp' = enter([vp EXCEPT !.assets.black = cv.asset, !.returned = TRUE], "done")
    /\ UNCHANGED <<pfVars, now, cv, ex, sh, home, ff>>

\* the promise of the current stage is rejected: the run fails with its error
vpFailed ==
    /\ \/ vp.stage = "extracting" /\ ex.pc = "thrown"
          /\ vp' = enter([vp EXCEPT !.error = ex.err], "failed")
       \/ vp.stage = "classifying" /\ calls[1].pc = "thrown"
          /\ vp' = enter([vp EXCEPT !.error = calls[1].err], "failed")
       \/ vp.stage \in {"reassembling-mask", "reassembling-composite"}
          /\ cv.promise = "rejected"
          /\ vp' = enter([vp EXCEPT !.error = cv.error], "failed")
    /\ UNCHANGED <<pfVars, now, cv, ex, sh, home, ff>>

vpNext == vpStart \/ vpExtracted \/ vpClassified \/ vpMaskDone \/ vpDone \/ vpFailed

\* ------------------------------------------- FFmpegProcessor.processVideo
\* the awaits of processVideo, each named after what it waits for: the two
\* dynamic imports, ffmpeg.load, writeFile, the two exec calls, and the
\* readFile and deleteFile calls
FfStages == {"import", "load", "write", "mask", "result", "read"}

\* the await that is rejected in a run, if any
FfFailures == {"none"} \cup FfStages

\* the fractions the library's progress event carries, in hundredths
Fractions == {0, 50, 100}

IdleFF ==
    [pc |-> "idle", caller |-> "none", colorType |-> "green", fail |-> "none",
     budget |-> 0, fired |-> 0, last |-> 0, listening |-> FALSE, reports |-> <<>>,
     phase |-> "", terminated |-> FALSE, err |-> "none"]

\* onProgress?.(value, phase)
report(f, value, phase) == [f EXCEPT !.reports = Append(@, value), !.phase = phase]

\* const currentProgress = 30 + Math.round(progress * 50)
currentProgress(progress) == 30 + DivRound(progress * 50, 100)

\* processVideo up to its first await
processVideoCall(f, caller, colorType, fail, budget) ==
    [f EXCEPT !.pc = "import", !.caller = caller, !.colorType = colorType,
              !.fail = fail, !.budget = budget]

\* the await the call is suspended in is fulfilled: the code up to the next
\* await, or to the return, runs
settle(f) ==
    IF f.pc = "import"
    THEN [report(f, 5, "Loading FFmpeg...") EXCEPT !.pc = "load", !.listening = TRUE]
    ELSE IF f.pc = "load"
    THEN [report(report(f, 15, "FFmpeg loaded"), 20, "Loading video...") EXCEPT !.pc = "write"]
    ELSE IF f.pc = "write"
    THEN [report(f, 30, "Generating mask...") EXCEPT !.pc = "mask", !.fired = 0, !.last = 0]
    ELSE IF f.pc = "mask"
    THEN [report(f, 60, "Removing background...") EXCEPT !.pc = "result", !.fired = 0, !.last = 0]
    ELSE IF f.pc = "result"
    THEN [report(f, 90, "Reading output...") EXCEPT !.pc = "read"]
    ELSE [report(f, 100, "Complete!") EXCEPT !.pc = "returned", !.terminated = TRUE,
                                             !.listening = FALSE]

\* the await the call is suspended in is rejected: the exception leaves
\* processVideo, which has no try
reject(f) == [f EXCEPT !.pc = "thrown", !.err = f.pc]

\* the handler of ffmpeg.on('progress', ...)
progressHandler(f, progress) ==
    [report(f, currentProgress(progress), "Processing...") EXCEPT
        !.fired = @ + 1, !.last = progress]

\* the callback Home passes to processVideo: setProgress, setStatusMessage
onProgress(h, before, after) ==
    IF after.caller = "home" /\ Len(after.reports) > Len(before.reports)
    THEN [h EXCEPT !.progress = after.reports[Len(after.reports)],
                   !.statusMessage = after.phase]
    ELSE h

processVideo ==
    /\ ff.pc = "idle"
    /\ \E colorType \in {"green", "blue"}, fail \in FfFailures, budget \in 0..MaxProgressEvents :
         ff' = processVideoCall(ff, "none", colorType, fail, budget)
    /\ UNCHANGED <<pfVars, now, cv, ex, vp, sh, home>>

fulfilled ==
    /\ ff.pc \in FfStages
    /\ ff.fail # ff.pc
    /\ ff' = settle(ff)
    /\ home' = onProgress(home, ff, settle(ff))
    /\ UNCHANGED <<pfVars, now, cv, ex, vp, sh>>

rejected ==
    /\ ff.pc \in FfStages
    /\ ff.fail = ff.pc
    /\ ff' = reject(ff)
    /\ UNCHANGED <<pfVars, now, cv, ex, vp, sh, home>>

\* the library fires progress while an exec runs, with fractions that do not
\* go down during one exec
progressEvent ==
    /\ ff.pc \in {"mask", "result"}
    /\ ff.listening
    /\ ff.fired < ff.budget
    /\ \E progress \in Fractions :
         /\ progress >= ff.last
         /\ ff' = progressHandler(ff, progress)
         /\ home' = onProgress(home, ff, progressHandler(ff, progress))
    /\ UNCHANGED <<pfVars, now, cv, ex, vp, sh>>

ffNext == processVideo \/ fulfilled \/ rejected \/ progressEvent

\* ------------------------------------------------------------ the Home page
\* null for the URL states and the refs is 0 or NoUrls / NoBlobs; object URLs
\* are numbered in the order URL.createObjectURL hands them out
NoUrls == [mask |-> 0, result |-> 0]
NoBlobs == [mask |-> FALSE, result |-> FALSE]
NoTimeout == [pending |-> FALSE, left |-> 0]

\* setTimeout(() => setAppState('preview'), 3000), in seconds
errorDelay == 3000 \div 1000

IdleHome ==
    [appState |-> "upload", selectedColor |-> "green", originalVideoUrl |-> 0,
     processedUrls |-> NoUrls, progress |-> 0, statusMessage |-> "",
     videoRef |-> FALSE, inputFileRef |-> 0, processedBlobsRef |-> NoBlobs,
     timeout |-> NoTimeout, created |-> 0, revoked |-> {}, downloads |-> {}, runs |-> 0]

\* the body of handleReset
reset_keepsFile(h) ==
    [h EXCEPT !.revoked = @ \cup ({h.originalVideoUrl, h.processedUrls.mask,
                                   h.processedUrls.result} \ {0}),
              !.originalVideoUrl = 0, !.processedUrls = NoUrls, !.appState = "upload",
              !.videoRef = FALSE, !.processedBlobsRef = NoBlobs]

reset(h) ==
    [h EXCEPT !.revoked = @ \cup ({h.originalVideoUrl, h.processedUrls.mask,
                                   h.processedUrls.result} \ {0}),
              !.originalVideoUrl = 0, !.processedUrls = NoUrls, !.appState = "upload",
              !.videoRef = FALSE, !.inputFileRef = 0, !.processedBlobsRef = NoBlobs]

\* VideoUploader, rendered in the upload state, hands over a file
handleVideoSelect ==
    /\ home.appState = "upload"
    /\ home.runs < MaxRuns
    /\ \E file \in {1, 2} :
         home' = [home EXCEPT !.originalVideoUrl = home.created + 1, !.created = @ + 1,
                              !.inputFileRef = file, !.appState = "preview",
                              !.runs = @ + 1]
    /\ UNCHANGED <<pfVars, now, cv, ex, vp, sh, ff>>

\* VideoPreview, rendered in the preview state, reports its video element
handleVideoReady ==
    /\ home.appState = "preview" /\ home.originalVideoUrl # 0
    /\ ~home.videoRef
    /\ home' = [home EXCEPT !.videoRef = TRUE]
    /\ UNCHANGED <<pfVars, now, cv, ex, vp, sh, ff>>

\* ColorSelector, rendered in the preview state
setSelectedColor ==
    /\ home.appState = "preview" /\ home.originalVideoUrl # 0
    /\ \E color \in {"green", "blue"} :
         /\ color # home.selectedColor
         /\ home' = [home EXCEPT !.selectedColor = color]
    /\ UNCHANGED <<pfVars, now, cv, ex, vp, sh, ff>>

\* the Process button, rendered in the preview state: handleProcess up to
\* the await of processVideo, which is called on a fresh FFmpegProcessor
handleProcess ==
    /\ home.appState = "preview" /\ home.originalVideoUrl # 0
    /\ IF home.inputFileRef = 0
       THEN UNCHANGED <<home, ff>>
       ELSE /\ home' = [home EXCEPT !.appState = "processing", !.progress = 0,
                                    !.statusMessage = "Initializing FFmpeg..."]
            /\ \E fail \in FfFailures, budget \in {0, 1} :
                 ff' = processVideoCall(IdleFF, "home", home.selectedColor, fail, budget)
    /\ UNCHANGED <<pfVars, now, cv, ex, vp, sh>>

\* handleProcess after the await: the try block runs on
processResolved ==
    /\ home.appState = "processing"
    /\ ff.caller = "home" /\ ff.pc = "returned"
    /\ home' = [home EXCEPT !.processedBlobsRef = [mask |-> TRUE, result |-> TRUE],
                            !.processedUrls = [mask |-> home.created + 1,
                                               result |-> home.created + 2],
                            !.created = @ + 2,
                            !.appState = "complete"]
    /\ UNCHANGED <<pfVars, now, cv, ex, vp, sh, ff>>

\* handleProcess after the await: the catch block, which takes the rejection
processCaught ==
    /\ home.appState = "processing"
    /\ ff.caller = "home" /\ ff.pc = "thrown"
    /\ home' = [home EXCEPT !.statusMessage = "Error",
                            !.timeout = [pending |-> TRUE, left |-> errorDelay]]
    /\ ff' = [ff EXCEPT !.pc = "caught"]
    /\ UNCHANGED <<pfVars, now, cv, ex, vp, sh>>

\* a second passes while the timeout of the catch block is pending
homeTick ==
    /\ home.timeout.pending
    /\ home.timeout.left > 0
    /\ home' = [home EXCEPT !.timeout.left = @ - 1]
    /\ UNCHANGED <<pfVars, now, cv, ex, vp, sh, ff>>

\* the timeout of the catch block fires: setAppState('preview')
previewTimeout ==
    /\ home.timeout.pending
    /\ home.timeout.left = 0
    /\ home' = [home EXCEPT !.timeout = NoTimeout, !.appState = "preview"]
    /\ UNCHANGED <<pfVars, now, cv, ex, vp, sh, ff>>

\* the two Download buttons, rendered in the complete state
handleDownload ==
    /\ home.appState = "complete" /\ home.processedUrls # NoUrls
    /\ \E type \in {"mask", "result"} :
         /\ type \notin home.downloads
         /\ home' = IF home.processedBlobsRef = NoBlobs THEN home
                    ELSE [home EXCEPT !.downloads = @ \cup {type}]
    /\ UNCHANGED <<pfVars, now, cv, ex, vp, sh, ff>>

\* the Process Another Video button, rendered in the complete state
handleReset ==
    /\ home.appState = "complete" /\ home.processedUrls # NoUrls
    /\ home' = reset(home)
    /\ UNCHANGED <<pfVars, now, cv, ex, vp, sh, ff>>

homeNext ==
    \/ handleVideoSelect \/ handleVideoReady \/ setSelectedColor \/ handleProcess
    \/ processResolved \/ processCaught \/ homeTick \/ previewTimeout
    \/ handleDownload \/ handleReset

\* the processFrames stage, two activations on one VideoProcessor
InitPF == pfInit /\ now = 0 /\ cv = IdleCV /\ ex = IdleEX /\ vp = IdleVP /\ home = IdleHome /\ ff = IdleFF /\ sh = IdleSH
NextPF == pfNext
SpecPF == InitPF /\ [][NextPF]_vars

\* the createVideo stage, started after an arbitrary time spent before it
InitCV == pfInit /\ now \in 0..MaxStart /\ cv = IdleCV /\ ex = IdleEX /\ vp = IdleVP /\ home = IdleHome /\ ff = IdleFF /\ sh = IdleSH
NextCV == cvNext
SpecCV == InitCV /\ [][NextCV]_vars

\* the extractFrames stage over one video source
InitEX == pfInit /\ now = 0 /\ cv = IdleCV /\ ex = IdleEX /\ vp = IdleVP /\ home = IdleHome /\ ff = IdleFF /\ sh = IdleSH
NextEX == exNext
SpecEX == InitEX /\ [][NextEX]_vars

\* the two shader passes over one texel, for sampled texels and settings
InitSH ==
    /\ pfInit /\ now = 0 /\ cv = IdleCV /\ ex = IdleEX /\ vp = IdleVP /\ home = IdleHome /\ ff = IdleFF
    /\ sh \in {[IdleSH EXCEPT !.px = p, !.settings = s] : p \in SamplePixels, s \in SampleSettings}
NextSH == shNext
SpecSH == InitSH /\ [][NextSH]_vars

\* processFrames over frames of every small size
InitRB == pfInit /\ now = 0 /\ cv = IdleCV /\ ex = IdleEX /\ vp = IdleVP /\ home = IdleHome /\ ff = IdleFF /\ sh = IdleSH
NextRB == processSized \/ loopBody(1) \/ resume(1) \/ loopExit(1)
SpecRB == InitRB /\ [][NextRB]_vars

\* one processVideo call
InitFF == pfInit /\ now = 0 /\ cv = IdleCV /\ ex = IdleEX /\ vp = IdleVP /\ home = IdleHome /\ ff = IdleFF /\ sh = IdleSH
NextFF == ffNext
SpecFF == InitFF /\ [][NextFF]_vars

\* the Home page over the processVideo calls it makes
InitHome == pfInit /\ now = 0 /\ cv = IdleCV /\ ex = IdleEX /\ vp = IdleVP /\ home = IdleHome /\ ff = IdleFF /\ sh = IdleSH
NextHome == homeNext \/ fulfilled \/ rejected \/ progressEvent
SpecHome == InitHome /\ [][NextHome]_vars

\* one pipeline run over the three stages
InitVP == pfInit /\ now = 0 /\ cv = IdleCV /\ ex = IdleEX /\ vp = IdleVP /\ home = IdleHome /\ ff = IdleFF /\ sh = IdleSH
NextVP ==
    \/ vpNext
    \/ seeked \/ sourceError
    \/ loopBody(1) \/ resume(1) \/ loopExit(1)
    \/ drawTimer \/ stopTimer \/ onstop \/ onerror \/ tick
SpecVP == InitVP /\ [][NextVP]_vars

\* ------------------------------------------------------------------ claims
Finished(call) == call.pc \in {"returned", "thrown"}
Rgb(px) == <<px[1], px[2], px[3]>>
liveContext(k) == [contexts[k] EXCEPT !.destroyed = 0]

\* C1: when processFrames has returned for N frames, the mask and the black
\* sequence both have N entries and entry i of each is the result of the one
\* classification of frames[i] made in iteration i.
FramesAligned ==
    \A c \in Calls :
      LET call == calls[c]
      IN  call.pc = "returned" =>
            /\ Len(call.maskFrames) = Len(call.frames)
            /\ Len(call.blackFrames) = Len(call.frames)
            /\ Len(call.used) = Len(call.frames)
            /\ \A k \in 1..Len(call.frames) :
                 LET result == processFrameAll(liveContext(call.used[k]), call.frames[k],
                                               settingsOf(call.colorType))
                 IN  call.maskFrames[k] = result.mask /\ call.blackFrames[k] = result.black

FramesAlignedWitness ==
    \E c \in Calls :
      /\ calls[c].pc = "returned"
      /\ Len(calls[c].frames) = MaxFrames
      /\ calls[c].frames[1] # calls[c].frames[2]

\* C2: a processFrames call that constructed a context has, once it returned
\* or threw, used that one context for every frame it classified and
\* destroyed it exactly once.
ContextReleasedAtEnd ==
    \A c \in Calls :
      LET call == calls[c]
      IN  (Finished(call) /\ call.own # 0) =>
            /\ Cardinality({k \in 1..Len(contexts) : contexts[k].owner = c}) = 1
            /\ \A k \in 1..Len(call.used) : call.used[k] = call.own
            /\ contexts[call.own].destroyed = 1

\* C3: every frame a call classifies is classified with the context that
\* this call created.
OwnContextOnly ==
    \A c \in Calls : \A k \in 1..Len(calls[c].used) : calls[c].used[k] = calls[c].own

\* C4: classify is never reached through a null handle nor run on a
\* destroyed context, and no context is destroyed twice.
NoUseAfterDestroy ==
    /\ \A c \in Calls : calls[c].err # "nullClassify"
    /\ \A k \in 1..Len(contexts) : contexts[k].destroyed <= 1
    /\ \A k \in 1..Len(contexts) : contexts[k].usedDead = 0

\* C5: frames that are pure green throughout, classified under the green
\* preset, give mask frames and composite frames that are black throughout.
PureGreenIsKeyed ==
    \A c \in Calls :
      LET call == calls[c]
      IN  (/\ call.colorType = "green"
           /\ \A k \in 1..Len(call.frames) : \A j \in 1..Len(call.frames[k].data) :
                call.frames[k].data[j] = PureGreen)
          => /\ \A k \in 1..Len(call.maskFrames) : \A j \in 1..Len(call.maskFrames[k].data) :
                  Rgb(call.maskFrames[k].data[j]) = <<0, 0, 0>>
             /\ \A k \in 1..Len(call.blackFrames) : \A j \in 1..Len(call.blackFrames[k].data) :
                  Rgb(call.blackFrames[k].data[j]) = <<0, 0, 0>>

\* C6: the schedule of createVideo depends on the start time, the frame
\* interval and the number of frames emitted only: after k frames the next
\* target is startTime + k * frameInterval, the first frame is emitted at
\* startTime, and after all N frames the schedule spans N * frameInterval.
ScheduleSpan ==
    cv.recorder # "none" =>
      /\ cv.nextFrameTime = cv.startTime + cv.frameIndex * frameInterval
      /\ Len(cv.emits) = cv.frameIndex
      /\ (cv.emits # <<>> => cv.emits[1].at = cv.startTime)
      /\ (cv.frameIndex = Len(cv.frames) =>
            cv.nextFrameTime - cv.startTime = Len(cv.frames) * frameInterval)

ScheduleSpanWitness ==
    /\ cv.frameIndex = MaxCvFrames
    /\ cv.startTime > 0
    /\ \E k \in 1..Len(cv.emits) : cv.emits[k].at > cv.startTime + (k - 1) * frameInterval

\* C7: the frames are rendered in the order 0, 1, ..., each once, every
\* render is followed by a capture request for that frame before anything
\* else is rendered, and a resolved run has rendered all N frames.
EventsOf(kind) == SelectSeq(cv.events, LAMBDA e : e[1] = kind)

EveryFrameCaptured ==
    /\ \A k \in 1..Len(EventsOf("putImageData")) : EventsOf("putImageData")[k][2] = k - 1
    /\ \A j \in 1..Len(cv.events) :
         cv.events[j][1] = "putImageData" =>
           /\ j < Len(cv.events)
           /\ cv.events[j + 1] = <<"requestFrame", cv.events[j][2]>>
    /\ (cv.promise = "resolved" => Len(EventsOf("putImageData")) = Len(cv.frames))

\* C8: a frame emitted more than one frame interval behind its target is not
\* followed by two frames that are both emitted with a delay of zero.
lateness(k) == cv.emits[k].at - (cv.startTime + (k - 1) * frameInterval)

NoCatchUpBurst ==
    \A k \in 1..Len(cv.emits) :
      ~ (/\ k + 2 <= Len(cv.emits)
         /\ lateness(k) > frameInterval
         /\ cv.emits[k].delay = 0
         /\ cv.emits[k + 1].delay = 0)

\* C9: entering processFrames with no frames returns at once with two empty
\* sequences: no context is constructed, the processor handle and the host
\* are left as they were, no progress is reported and nothing is awaited.
EmptyRunStep ==
    \A c \in Calls :
      (calls[c].pc = "idle" /\ calls'[c].pc # "idle" /\ calls'[c].frames = <<>>) =>
        /\ calls'[c].pc = "returned"
        /\ calls'[c].maskFrames = <<>> /\ calls'[c].blackFrames = <<>>
        /\ calls'[c].own = 0 /\ calls'[c].used = <<>>
        /\ calls'[c].progress = <<>> /\ calls'[c].yields = 0
        /\ processor' = processor /\ contexts' = contexts /\ running' = running

EmptyRunIsNoOp == [][EmptyRunStep]_vars

EmptyRunWitness ==
    \E c \in Calls :
      calls[c].pc = "returned" /\ calls[c].frames = <<>> /\ processor # 0

\* C10: createVideo with no frames is rejected with the empty-input error
\* and has created no canvas, stream or recorder, reported no progress,
\* scheduled no timer and produced no asset.
EmptyCreateVideoFails ==
    (cv.pc = "called" /\ cv.frames = <<>>) =>
      /\ cv.promise = "rejected"
      /\ cv.error = "No frames to process"
      /\ cv.created = {} /\ cv.recorder = "none"
      /\ cv.events = <<>> /\ cv.chunks = <<>>
      /\ cv.timer = NoTimer /\ ~cv.stopEvent
      /\ cv.asset = NoAsset

EmptyCreateVideoWitness ==
    cv.pc = "called" /\ cv.frames = <<>> /\ cv.promise = "rejected"

\* C11: when the construction of the context fails, or the classification of
\* frame i raises, processFrames ends there with that error: nothing more is
\* classified by this call, the failed call never changes again, and a call
\* that returns holds a full mask and a full composite sequence.
ErrorAbortsStep ==
    \A c \in Calls :
      LET call == calls[c]
          after == calls'[c]
      IN  /\ (call.pc = "idle" /\ after.pc # "idle" /\ after.frames # <<>>
                /\ after.fail.kind = "ctor")
               => /\ after.pc = "thrown" /\ after.err = "ctor"
                  /\ after.own = 0 /\ after.used = <<>>
                  /\ after.maskFrames = <<>> /\ after.blackFrames = <<>>
                  /\ contexts' = contexts /\ processor' = processor
          /\ (running = c /\ call.pc = "loop" /\ processor # 0
                /\ call.fail.kind = "classify" /\ call.fail.at = call.i + 1)
               => /\ after.pc = "thrown" /\ after.err = "classify"
                  /\ Len(call.used) = call.i /\ after.used = call.used
                  /\ after.maskFrames = call.maskFrames
                  /\ after.blackFrames = call.blackFrames
          /\ (call.pc = "thrown" => after = call)
          /\ (after.pc = "returned"
               => /\ Len(after.maskFrames) = Len(after.frames)
                  /\ Len(after.blackFrames) = Len(after.frames)
                  /\ after.fail.kind # "classify"
                  /\ (after.fail.kind = "ctor" => after.frames = <<>>))

ErrorAborts == [][ErrorAbortsStep]_vars

ErrorAbortsWitness ==
    /\ calls[1].pc = "thrown" /\ calls[1].err = "ctor"
    /\ calls[2].pc = "thrown" /\ calls[2].err = "classify"
    /\ calls[2].fail.at = 2 /\ Len(calls[2].maskFrames) = 1
    /\ Len(calls[2].frames) = MaxFrames

\* C12: once the recorder has reported an error, the promise of createVideo
\* is rejected and stays so, and no asset is produced, also after the stop
\* event that follows the error has been delivered.
SinkErrorRejects ==
    (\E j \in 1..Len(cv.events) : cv.events[j][1] = "error") =>
      /\ cv.promise = "rejected"
      /\ cv.asset = NoAsset

SinkErrorRejectsWitness ==
    /\ \E j \in 1..Len(cv.events) : cv.events[j][1] = "error"
    /\ cv.error = "MediaRecorder error"
    /\ cv.frameIndex >= 2
    /\ ~cv.stopEvent

\* C13: when the source has given up a seek that extractFrames waits for,
\* extractFrames has failed with an error.
SeekFailureAborts ==
    ex.source.failed => ex.pc = "thrown"

\* C14: the run passes through extracting, classifying, reassembling-mask,
\* reassembling-composite and done in this order, each stage entered only
\* when the one before it has completed; the two assets are returned in done
\* only; an error in the component of the current stage takes the run to
\* failed, after which no stage is entered.
InLog(stage) == \E j \in 1..Len(vp.log) : vp.log[j] = stage

StagesSequenced ==
    /\ \E n \in 0..Len(Stages) :
         \/ vp.log = SubSeq(Stages, 1, n)
         \/ n >= 1 /\ n < Len(Stages) /\ vp.log = Append(SubSeq(Stages, 1, n), "failed")
    /\ vp.stage = IF vp.log = <<>> THEN "idle" ELSE vp.log[Len(vp.log)]
    /\ (vp.stage \in {"idle", "extracting"} => calls[1].pc = "idle")
    /\ (vp.stage \in {"idle", "extracting", "classifying"} => cv.pc = "idle")
    /\ (InLog("classifying") => ex.pc = "returned")
    /\ (InLog("reassembling-mask") => calls[1].pc = "returned")
    /\ (InLog("reassembling-composite") => vp.assets.mask.present)
    /\ (vp.assets.black.present \/ vp.returned) =>
         /\ vp.stage = "done"
         /\ vp.returned /\ vp.assets.mask.present /\ vp.assets.black.present
    /\ (vp.stage = "done" => vp.returned)
    /\ (vp.stage = "failed" <=> vp.error # "none")

StageErrorsSurface ==
    /\ (vp.stage = "extracting" /\ ex.source.failed) => ex.pc = "thrown"
    /\ (vp.stage \in {"reassembling-mask", "reassembling-composite"} /\ cv.uncaught > 0)
         => cv.promise = "rejected"

StagesInOrder == StagesSequenced /\ StageErrorsSurface

\* C15: extractFrames on a source of finite duration returns exactly
\* floor(duration x fps) frames; frame i is captured right after the seek to
\* i / fps was issued and signalled complete, the seek for the next index is
\* issued only after frame i was captured, and the captured times increase
\* strictly.
ExtractionOrdered ==
    /\ \A j \in 1..Len(ex.events) :
         LET e == ex.events[j]
         IN  /\ e[1] = "capture" =>
                  /\ j >= 3
                  /\ ex.events[j - 1] = <<"seeked", e[2]>>
                  /\ ex.events[j - 2] = <<"seek", e[2]>>
             /\ (e[1] = "seek" /\ e[2] > 0) =>
                  /\ j >= 3
                  /\ ex.events[j - 1] = <<"progress", e[2] - 1>>
                  /\ ex.events[j - 2] = <<"capture", e[2] - 1>>
             /\ (e[1] = "seek" /\ e[2] = 0) => j = 1
    /\ \A k \in 1..Len(ex.frames) : ex.frames[k] * fps = (k - 1) * fps * frameInterval
    /\ \A k \in 1..(Len(ex.frames) - 1) : ex.frames[k] < ex.frames[k + 1]
    /\ (ex.pc = "returned" /\ ex.env.duration.kind = "finite") =>
         /\ Len(ex.frames) * frameInterval <= ex.env.duration.ticks
         /\ ex.env.duration.ticks < (Len(ex.frames) + 1) * frameInterval

ExtractionOrderedWitness ==
    /\ ex.pc = "returned"
    /\ ex.env.duration.kind = "finite"
    /\ Len(ex.frames) >= 3
    /\ Len(ex.frames) * frameInterval < ex.env.duration.ticks

\* C16: with a duration that is not a finite positive number, extractFrames
\* returns the empty sequence: no seek is issued, no frame is captured, no
\* progress is reported and no error is raised.
UnknownDurationIsEmpty ==
    (/\ ex.pc # "idle"
     /\ ex.env.ctx
     /\ ~ (ex.env.duration.kind = "finite" /\ ex.env.duration.ticks > 0))
    => /\ ex.pc = "returned"
       /\ ex.frames = <<>> /\ ex.events = <<>> /\ ex.progress = <<>>
       /\ ex.listeners = 0

\* C17: whatever the texel and the valid Key Settings, the mask pass writes
\* an opaque gray pixel: red, green and blue all carry alpha, and the alpha
\* channel is 255.
MaskIsOpaqueGray ==
    sh.mask.done =>
      /\ sh.mask.color[1] = toByte[sh.mask.alpha]
      /\ sh.mask.color[2] = sh.mask.color[1]
      /\ sh.mask.color[3] = sh.mask.color[1]
      /\ sh.mask.color[4] = 255

MaskIsOpaqueGrayWitness ==
    /\ sh.mask.done
    /\ sh.settings.satMin > 0 /\ sh.settings.smoothness > 0
    /\ sh.mask.color[1] > 0 /\ sh.mask.color[1] < 255

\* C18: under every valid Key Settings, a texel with keyStrength 0 gets
\* alpha 1 and a white mask pixel, and a texel with keyStrength 1 gets alpha 0
\* and a black mask pixel.
ExtremesAreExact ==
    sh.mask.done =>
      /\ sh.mask.keyStrength = 0 => (sh.mask.alpha = One /\ Rgb(sh.mask.color) = <<255, 255, 255>>)
      /\ sh.mask.keyStrength = One => (sh.mask.alpha = 0 /\ Rgb(sh.mask.color) = <<0, 0, 0>>)

\* C19: a createVideo call on a healthy sink whose promise is still pending
\* always has a frame timer or the settle timer scheduled, or a stop event
\* waiting to be delivered: it is never left pending with nothing left that
\* could settle it, also when a render or a progress callback raised at a
\* later frame.
PendingCanSettle ==
    (cv.promise = "pending" /\ ~cv.env.sinkFails) =>
      (cv.timer.kind # "none" \/ cv.stopEvent)

\* C20: the step that emits frame k (0-based) computes the sleep before
\* frame k+1 as max(0, startTime + (k+1) x frameInterval - now) and arms the
\* timer with it; frame k is not emitted before startTime + k x
\* frameInterval, and exactly then in a run where nothing has overrun so far.
SleepStep ==
    Len(cv'.emits) = Len(cv.emits) + 1 =>
      LET k == Len(cv.emits)
          e == cv'.emits[k + 1]
          target == cv'.startTime + (k + 1) * frameInterval
      IN  /\ e.delay >= 0
          /\ e.delay = IF target > now' THEN target - now' ELSE 0
          /\ cv'.timer = [kind |-> "draw", due |-> now' + e.delay]
          /\ e.at >= cv'.startTime + k * frameInterval
          /\ (cv'.slack = slackOf(cv'.env) => e.at = cv'.startTime + k * frameInterval)

SleepsToSchedule == [][SleepStep]_vars

SleepsToScheduleWitness ==
    /\ Len(cv.emits) = MaxCvFrames
    /\ \E k \in 1..Len(cv.emits) : cv.emits[k].delay = 0 /\ lateness(k) > 0
    /\ \E k \in 1..Len(cv.emits) : cv.emits[k].delay = frameInterval
    /\ \E k \in 1..Len(cv.emits) : cv.emits[k].delay > 0 /\ cv.emits[k].delay < frameInterval

\* C21: createVideo arms the stop of the recorder only once all N frames have
\* been rendered, for exactly 100 ms later; the stop request is sent when that
\* timer has run out, so at least 100 ms after the last frame was submitted;
\* and the asset is produced only after that stop, with no frame left to emit.
FinalizeStep ==
    /\ now' >= now
    /\ (cv'.timer.kind = "stop" /\ cv.timer.kind # "stop") =>
         /\ cv'.frameIndex = Len(cv'.frames)
         /\ Len(SelectSeq(cv'.events, LAMBDA e : e[1] = "putImageData")) = Len(cv'.frames)
         /\ (cv'.timer.due - now') * 1000 = 100 * fps * frameInterval
    /\ (Len(SelectSeq(cv'.events, LAMBDA e : e[1] = "stop")) >
          Len(SelectSeq(cv.events, LAMBDA e : e[1] = "stop"))) =>
         /\ cv.timer.kind = "stop"
         /\ now >= cv.timer.due
         /\ cv.frameIndex = Len(cv.frames)
         /\ ~cv.asset.present
    /\ (cv'.asset.present /\ ~cv.asset.present) =>
         /\ Len(cv.frames) > 0
         /\ cv.frameIndex = Len(cv.frames)
         /\ EventsOf("stop") # <<>>
         /\ cv.recorder = "inactive"

FinalizedAfterSettle == [][FinalizeStep]_vars

FinalizedAfterSettleWitness ==
    /\ cv.asset.present
    /\ Len(cv.frames) = MaxCvFrames
    /\ cv.env.jitter
    /\ cv.stoppedAt > cv.emits[Len(cv.emits)].at + cv.emits[Len(cv.emits)].delay + settleDelay

\* C22: processFrames never runs more than 5 classifications in a row
\* without handing control back to the host: every classification is at most
\* the fifth since the call last yielded (or since it was entered), and the
\* call yields after frame 0 and after every fifth frame from there.
YieldStep ==
    \A c \in Calls :
      Len(calls'[c].used) = Len(calls[c].used) + 1 =>
        /\ calls[c].burst + 1 <= 5
        /\ (calls'[c].pc = "yielded" => calls'[c].burst = 0 /\ running' = 0)
        /\ (calls'[c].pc = "loop" => calls'[c].burst = calls[c].burst + 1)

YieldsEveryFive == [][YieldStep]_vars

YieldsEveryFiveWitness ==
    \E c \in Calls :
      /\ calls[c].pc = "yielded"
      /\ calls[c].yields = 2
      /\ Len(calls[c].used) = 6

\* C23: each stage reports progress once per frame, as (1, N), (2, N), ...,
\* (N, N) in this order: report k comes right after frame k-1 (0-based) was
\* captured, classified or rendered, before frame k is touched, and a stage
\* that completes has made exactly N reports.
ProgressBefore(events, kind, j) ==
    Len(SelectSeq(SubSeq(events, 1, j - 1), LAMBDA e : e[1] = kind))

ProgressInOrder ==
    /\ \A k \in 1..Len(ex.progress) : ex.progress[k] = <<k, ex.totalFrames>>
    /\ \A j \in 1..Len(ex.events) :
         /\ ex.events[j][1] = "progress" =>
              j > 1 /\ ex.events[j - 1] = <<"capture", ex.events[j][2]>>
         /\ ex.events[j][1] = "capture" =>
              ProgressBefore(ex.events, "progress", j) = ex.events[j][2]
    /\ (ex.pc = "returned" =>
          ex.totalFrames.kind = "finite" /\ Len(ex.progress) = ex.totalFrames.n)
    /\ \A k \in 1..Len(calls[1].progress) :
         calls[1].progress[k] = <<k, Len(calls[1].frames)>>
    /\ Len(calls[1].progress) = Len(calls[1].used)
    /\ (calls[1].pc = "returned" => Len(calls[1].progress) = Len(calls[1].frames))
    /\ \A k \in 1..Len(EventsOf("onProgress")) :
         EventsOf("onProgress")[k] = <<"onProgress", k, Len(cv.frames)>>
    /\ \A j \in 1..Len(cv.events) :
         /\ cv.events[j][1] = "onProgress" =>
              j > 1 /\ cv.events[j - 1] = <<"requestFrame", cv.events[j][2] - 1>>
         /\ cv.events[j][1] = "putImageData" =>
              ProgressBefore(cv.events, "onProgress", j) = cv.events[j][2]
    /\ (cv.promise = "resolved" => Len(EventsOf("onProgress")) = Len(cv.frames))

ProgressInOrderWitness ==
    /\ vp.stage = "done"
    /\ Len(ex.progress) >= 3
    /\ Len(calls[1].progress) = Len(ex.progress)
    /\ Len(EventsOf("onProgress")) = Len(ex.progress)

\* C24: under either preset a texel whose hue is a quarter turn (90 degrees)
\* above the preset's target hue is kept whole: its mask texel is white and
\* its composite texel is the input colour, no channel changed by the spill
\* suppression.
OrthogonalHueKept ==
    (/\ sh.black.done
     /\ sh.settings \in {GREEN_SCREEN_SETTINGS, BLUE_SCREEN_SETTINGS}
     /\ rgb2hsv[texture2D[sh.px]].h = sh.settings.hueTarget + 90 * HueUnit) =>
      /\ Rgb(sh.mask.color) = <<255, 255, 255>>
      /\ Rgb(sh.black.color) = Rgb(sh.px)

OrthogonalHueKeptWitness ==
    /\ sh.black.done
    /\ sh.settings = BLUE_SCREEN_SETTINGS
    /\ sh.px = <<200, 100, 150, 255>>
    /\ rgb2hsv[texture2D[sh.px]].h = 330 * HueUnit

\* C25: under either preset a texel of exactly the target hue, of half value
\* and of a saturation just above u_satMin is keyed out completely: alpha is
\* 0, so its mask texel is black and its composite texel is black.
TargetHueKeyed ==
    (/\ sh.black.done
     /\ sh.settings \in {GREEN_SCREEN_SETTINGS, BLUE_SCREEN_SETTINGS}
     /\ rgb2hsv[texture2D[sh.px]].h = sh.settings.hueTarget
     /\ rgb2hsv[texture2D[sh.px]].s > sh.settings.satMin
     /\ rgb2hsv[texture2D[sh.px]].s <= sh.settings.satMin + One \div 50
     /\ Abs(rgb2hsv[texture2D[sh.px]].v - One \div 2) <= One \div 100) =>
      /\ sh.mask.alpha = 0
      /\ sh.black.alpha = 0
      /\ Rgb(sh.mask.color) = <<0, 0, 0>>
      /\ Rgb(sh.black.color) = <<0, 0, 0>>

TargetHueKeyedWitness ==
    /\ sh.black.done
    /\ sh.settings = GREEN_SCREEN_SETTINGS
    /\ sh.px = <<108, 128, 108, 255>>
    /\ rgb2hsv[texture2D[sh.px]].h = 120 * HueUnit
    /\ sh.mask.keyStrength > 0 /\ sh.mask.keyStrength < One

\* C26: every frame a classification returns has the width and the height
\* of the context and width x height texels of 4 bytes; its row y is row
\* height - 1 - y of the readback, for every height, 1 and the odd ones
\* included; and its texel (x, y) is the shader's output for the input texel
\* (x, y).
OutputOriented(out, program, c, k) ==
    LET ctx == liveContext(calls[c].used[k])
        s == settingsOf(calls[c].colorType)
        input == calls[c].frames[k]
        back == readPixels(ctx, program, input, s)
    IN  /\ out.width = ctx.width /\ out.height = ctx.height
        /\ Len(out.data) = ctx.width * ctx.height
        /\ \A j \in 1..Len(out.data) : Len(out.data[j]) = 4
        /\ \A y \in 0..(ctx.height - 1), x \in 0..(ctx.width - 1) :
             /\ out.data[y * ctx.width + x + 1] =
                  back[(ctx.height - 1 - y) * ctx.width + x + 1]
             /\ out.data[y * ctx.width + x + 1] =
                  runFragment(program, input.data[y * ctx.width + x + 1], s)

ReadbackOriented ==
    \A k \in 1..Len(calls[1].maskFrames) :
      /\ OutputOriented(calls[1].maskFrames[k], "maskProgram", 1, k)
      /\ OutputOriented(calls[1].blackFrames[k], "blackBgProgram", 1, k)

ReadbackOrientedWitness ==
    /\ calls[1].pc = "returned"
    /\ Len(calls[1].maskFrames) = 2
    /\ calls[1].maskFrames[2].height = 3
    /\ calls[1].maskFrames[2].width = 2
    /\ calls[1].maskFrames[2].data[1] # calls[1].maskFrames[2].data[5]
    /\ calls[1].blackFrames[2].data[1] # calls[1].blackFrames[2].data[2]

\* C27: for every texel and every Key Settings the composite pass arrives at
\* the key strength and the alpha of the mask pass, so the composite texel is
\* the despilled colour times the mask's alpha; where the mask texel is black
\* the composite texel is black.
PassesAgree ==
    sh.black.done =>
      /\ sh.black.keyStrength = sh.mask.keyStrength
      /\ sh.black.alpha = sh.mask.alpha
      /\ sh.black.color =
           blackColor[suppressSpill[texture2D[sh.px],
                                    FMul(sh.settings.spillSuppression, One - sh.mask.alpha \div 2),
                                    sh.settings.hueTarget < 180 * HueUnit],
                      sh.mask.alpha]
      /\ (Rgb(sh.mask.color) = <<0, 0, 0>> => Rgb(sh.black.color) = <<0, 0, 0>>)

PassesAgreeWitness ==
    /\ sh.black.done
    /\ sh.settings.satMin > 0 /\ sh.settings.smoothness > 0
    /\ sh.mask.keyStrength > 0
    /\ sh.mask.alpha > 0 /\ sh.mask.alpha < One
    /\ Rgb(sh.black.color) # <<0, 0, 0>>
    /\ Rgb(sh.black.color) # Rgb(sh.px)

\* C28: once the recorder has reported an error, createVideo does no more
\* work on the run: after the error no frame is rendered or captured, the
\* progress callback is not called again and no stop request is sent to the
\* recorder (one sent to the stopped recorder raises, uncaught, in its timer).
StopsAfterSinkError ==
    \A j \in 1..Len(cv.events) :
      cv.events[j][1] = "error" =>
        /\ \A i \in (j + 1)..Len(cv.events) :
             cv.events[i][1] \notin {"putImageData", "requestFrame", "onProgress"}
        /\ (cv.env.fail = NoFailure => cv.uncaught = 0)

\* C29: appState moves only along upload -> preview, preview -> processing,
\* processing -> complete (processVideo fulfilled), processing -> preview
\* (processVideo rejected and the 3 s of the error timeout over) and complete
\* -> upload (reset); in the complete state both processed URLs and both
\* blobs are there; and a reset leaves the original URL, the processed URLs,
\* the input file and the blobs null.
HomeStep ==
    /\ home'.appState # home.appState =>
         <<home.appState, home'.appState>> \in
            {<<"upload", "preview">>, <<"preview", "processing">>,
             <<"processing", "complete">>, <<"processing", "preview">>,
             <<"complete", "upload">>}
    /\ (home.appState = "upload" /\ home'.appState = "preview") =>
         home'.inputFileRef # 0 /\ home'.originalVideoUrl # 0
    /\ (home.appState = "processing" /\ home'.appState = "complete") =>
         ff.pc = "returned"
    /\ (home.appState = "processing" /\ home'.appState = "preview") =>
         /\ ff.pc = "caught"
         /\ home.timeout.pending
         /\ home.timeout.left + 3 = errorDelay
    /\ home'.appState = "complete" =>
         /\ home'.processedUrls.mask # 0 /\ home'.processedUrls.result # 0
         /\ home'.processedBlobsRef.mask /\ home'.processedBlobsRef.result
    /\ (home.appState = "complete" /\ home'.appState = "upload") =>
         /\ home'.originalVideoUrl = 0
         /\ home'.processedUrls = NoUrls
         /\ home'.inputFileRef = 0
         /\ home'.processedBlobsRef = NoBlobs

HomeStateMachine == [][HomeStep]_vars

HomeStateMachineWitness ==
    /\ home.appState = "upload"
    /\ home.runs = 1
    /\ home.statusMessage = "Complete!"
    /\ home.revoked = {1, 2, 3}
    /\ home.downloads = {"mask", "result"}

\* C30: the progress values of one processVideo call never go down, each is
\* between 5 and 100, and 100 is reported once only, as the last report of a
\* call that returns.
ProgressMonotone ==
    /\ \A k \in 1..Len(ff.reports) : ff.reports[k] >= 5 /\ ff.reports[k] <= 100
    /\ \A k \in 1..(Len(ff.reports) - 1) : ff.reports[k] <= ff.reports[k + 1]
    /\ \A k \in 1..Len(ff.reports) :
         ff.reports[k] = 100 => k = Len(ff.reports) /\ ff.pc = "returned"
    /\ (ff.pc = "returned" => ff.reports # <<>> /\ ff.reports[Len(ff.reports)] = 100)

====
